---- MODULE Spec2Model ----
(***************************************************************************)
(* Support-ticket route (app/routes/app._index.jsx): the loader that lists *)
(* tickets and the action that dispatches on the form's intent to delete,  *)
(* mark_done, update or create, over the ticket table reached through      *)
(* db.ticket.  Strings are sequences of one-character strings, so that     *)
(* toLowerCase and includes are computed, not assumed.                     *)
(***************************************************************************)
EXTENDS Naturals, Sequences, FiniteSets, TLC

VARIABLES
    store,      \* the ticket table: a set of ticket records
    nextId,     \* number of ids the table has handed out so far
    clock,      \* the createdAt timestamp of the latest insert
    request,    \* the last request received
    response    \* what the last request returned or threw

vars == <<store, nextId, clock, request, response>>

(*************************** bounds of the model ***************************)
\* tickets ever inserted in one behaviour
MaxCreates == 2
\* fragments concatenated into a generated title
MaxFragments == 2

(***************************** form values ********************************)
\* formData.get(name): null when the field is absent, else its string
Null == [isNull |-> TRUE, chars |-> <<>>]
Str(cs) == [isNull |-> FALSE, chars |-> cs]

\* JavaScript truthiness of a form value: null and "" are falsy
Truthy(v) == ~v.isNull /\ v.chars # <<>>

\* formData.get("id"): 0 stands for an absent id, 1..MaxCreates are ids
NoId == 0
Ids == 1..MaxCreates

\* formData.get("intent") of a request that carries no intent
NoIntent == "<absent>"

Descriptions == {Null, Str(<<"d">>)}

(************************* String.prototype ********************************)
Upper == <<"A","B","C","D","E","F","G","H","I","J","K","L","M",
           "N","O","P","Q","R","S","T","U","V","W","X","Y","Z">>
Lower == <<"a","b","c","d","e","f","g","h","i","j","k","l","m",
           "n","o","p","q","r","s","t","u","v","w","x","y","z">>

toLowerChar(c) ==
    IF \E i \in 1..Len(Upper) : Upper[i] = c
    THEN Lower[CHOOSE i \in 1..Len(Upper) : Upper[i] = c]
    ELSE c

toLowerCase(s) == [i \in 1..Len(s) |-> toLowerChar(s[i])]

includes(s, kw) ==
    \E i \in 0..(Len(s) - Len(kw)) : SubSeq(s, i + 1, i + Len(kw)) = kw

(***************************** keywords ***********************************)
kwMoney    == <<"m","o","n","e","y">>
kwPrice    == <<"p","r","i","c","e">>
kwRefund   == <<"r","e","f","u","n","d">>
kwError    == <<"e","r","r","o","r">>
kwBug      == <<"b","u","g">>
kwLogin    == <<"l","o","g","i","n">>
kwFail     == <<"f","a","i","l">>
kwShip     == <<"s","h","i","p">>
kwOrder    == <<"o","r","d","e","r">>
kwDelivery == <<"d","e","l","i","v","e","r","y">>

\* the variant of autoInquiry that tests the raw title, without lower-casing
autoInquiry_caseSensitive(title) ==
    LET lowerTitle == title IN
    IF includes(lowerTitle, kwMoney) \/ includes(lowerTitle, kwPrice)
       \/ includes(lowerTitle, kwRefund)
    THEN "Sales"
    ELSE IF includes(lowerTitle, kwError) \/ includes(lowerTitle, kwBug)
            \/ includes(lowerTitle, kwLogin) \/ includes(lowerTitle, kwFail)
    THEN "Technical"
    ELSE IF includes(lowerTitle, kwShip) \/ includes(lowerTitle, kwOrder)
            \/ includes(lowerTitle, kwDelivery)
    THEN "Logistics"
    ELSE "General"

\* Auto-Detect Inquiry: title is the string of a truthy form value
autoInquiry(title) ==
    LET lowerTitle == toLowerCase(title) IN
    IF includes(lowerTitle, kwMoney) \/ includes(lowerTitle, kwPrice)
       \/ includes(lowerTitle, kwRefund)
    THEN "Sales"
    ELSE IF includes(lowerTitle, kwError) \/ includes(lowerTitle, kwBug)
            \/ includes(lowerTitle, kwLogin) \/ includes(lowerTitle, kwFail)
    THEN "Technical"
    ELSE IF includes(lowerTitle, kwShip) \/ includes(lowerTitle, kwOrder)
            \/ includes(lowerTitle, kwDelivery)
    THEN "Logistics"
    ELSE "General"

(************************** the ticket table *******************************)
HasId(st, id) == \E t \in st : t.id = id

\* db.ticket.findMany({orderBy: {createdAt: dir}}): every row once, in any
\* order the sort key allows (rows with equal createdAt in either order)
StoreFindMany(st, dir) ==
    { l \in [1..Cardinality(st) -> st] :
        /\ \A i, j \in 1..Cardinality(st) : i # j => l[i] # l[j]
        /\ \A i, j \in 1..Cardinality(st) :
              i < j => IF dir = "desc"
                       THEN l[i].createdAt >= l[j].createdAt
                       ELSE l[i].createdAt <= l[j].createdAt }

\* db.ticket.create({data}): the table adds the id and createdAt (now, a
\* timestamp later than that of every earlier insert)
StoreCreate(st, data, id, now) ==
    st \cup {[id |-> id, title |-> data.title, description |-> data.description,
              status |-> data.status, inquiry |-> data.inquiry,
              createdAt |-> now]}

\* db.ticket.update({where: {id}, data: {status}})
StoreSetStatus(st, id, status) ==
    {IF t.id = id THEN [t EXCEPT !.status = status] ELSE t : t \in st}

\* db.ticket.update({where: {id}, data: {title, description}})
StoreSetText(st, id, title, description) ==
    {IF t.id = id THEN [t EXCEPT !.title = title, !.description = description]
     ELSE t : t \in st}

\* db.ticket.delete({where: {id}})
StoreDelete(st, id) == {t \in st : t.id # id}

\* what a write addressed by id raises: a failed connection, or no row
\* with that id
WriteError(st, id, dbFails) ==
    IF dbFails THEN "PersistenceError"
    ELSE IF ~HasId(st, id) THEN "NotFound"
    ELSE "none"

\* the status of the row a write addresses, as it is before the write
StatusOf(st, id) ==
    IF HasId(st, id) THEN (CHOOSE t \in st : t.id = id).status ELSE "absent"

(****************************** responses **********************************)
\* before: the status the addressed row had when the request arrived
Returned(op, value, before) ==
    [kind |-> "action", op |-> op, result |-> value, dbError |-> "none",
     before |-> before, list |-> <<>>]
\* an await that rejects is not caught in action: the request fails
Thrown(op, err, before) ==
    [kind |-> "action", op |-> op, result |-> "thrown", dbError |-> err,
     before |-> before, list |-> <<>>]

(******************************** loader ***********************************)
\* the variant of loader that asks for orderBy: {createdAt: 'asc'}
loader_ascending(dbFails) ==
    /\ request' = [kind |-> "loader", intent |-> NoIntent, id |-> NoId,
                   title |-> Null]
    /\ IF dbFails
       THEN response' = [kind |-> "loader", op |-> "list", result |-> "returned",
                         dbError |-> "PersistenceError", before |-> "absent",
                         list |-> <<>>]
       ELSE \E l \in StoreFindMany(store, "asc") :
               response' = [kind |-> "loader", op |-> "list",
                            result |-> "returned", dbError |-> "none",
                            before |-> "absent", list |-> l]
    /\ UNCHANGED <<store, nextId, clock>>

loader(dbFails) ==
    /\ request' = [kind |-> "loader", intent |-> NoIntent, id |-> NoId,
                   title |-> Null]
    /\ IF dbFails
       THEN response' = [kind |-> "loader", op |-> "list", result |-> "returned",
                         dbError |-> "PersistenceError", before |-> "absent",
                         list |-> <<>>]
       ELSE \E l \in StoreFindMany(store, "desc") :
               response' = [kind |-> "loader", op |-> "list",
                            result |-> "returned", dbError |-> "none",
                            before |-> "absent", list |-> l]
    /\ UNCHANGED <<store, nextId, clock>>

(******************************** action ***********************************)
\* the variant of the delete branch that catches the rejection of
\* db.ticket.delete and reports success
DeleteBranch_swallows(id, dbFails) ==
    LET err == WriteError(store, id, dbFails)
        before == StatusOf(store, id) IN
    /\ store' = IF err = "none" THEN StoreDelete(store, id) ELSE store
    /\ response' = [Returned("delete", "success", before) EXCEPT !.dbError = err]
    /\ UNCHANGED <<nextId, clock>>

\* A. DELETE
DeleteBranch(id, dbFails) ==
    LET err == WriteError(store, id, dbFails)
        before == StatusOf(store, id) IN
    /\ store' = IF err = "none" THEN StoreDelete(store, id) ELSE store
    /\ response' = IF err = "none" THEN Returned("delete", "success", before)
                   ELSE Thrown("delete", err, before)
    /\ UNCHANGED <<nextId, clock>>

\* the variant of the mark_done branch that refuses a ticket that is
\* already FULFILLED
MarkDoneBranch_rejectsFulfilled(id, dbFails) ==
    LET before == StatusOf(store, id)
        err == IF before = "FULFILLED" /\ ~dbFails THEN "Conflict"
               ELSE WriteError(store, id, dbFails) IN
    /\ store' = IF err = "none" THEN StoreSetStatus(store, id, "FULFILLED")
                ELSE store
    /\ response' = IF err = "none" THEN Returned("mark_done", "success", before)
                   ELSE Thrown("mark_done", err, before)
    /\ UNCHANGED <<nextId, clock>>

\* the variant of the mark_done branch that writes with upsert, so that an
\* id without a row gets one instead of a rejection
MarkDoneBranch_upserts(id, dbFails) ==
    LET before == StatusOf(store, id)
        err == IF dbFails THEN "PersistenceError" ELSE "none" IN
    /\ store' = IF err # "none" THEN store
                ELSE IF HasId(store, id)
                THEN StoreSetStatus(store, id, "FULFILLED")
                ELSE StoreCreate(store,
                        [title |-> Null, description |-> Null,
                         status |-> "FULFILLED", inquiry |-> "General"],
                        id, clock)
    /\ response' = IF err = "none" THEN Returned("mark_done", "success", before)
                   ELSE Thrown("mark_done", err, before)
    /\ UNCHANGED <<nextId, clock>>

\* B. MARK AS DONE
MarkDoneBranch(id, dbFails) ==
    LET err == WriteError(store, id, dbFails)
        before == StatusOf(store, id) IN
    /\ store' = IF err = "none" THEN StoreSetStatus(store, id, "FULFILLED")
                ELSE store
    /\ response' = IF err = "none" THEN Returned("mark_done", "success", before)
                   ELSE Thrown("mark_done", err, before)
    /\ UNCHANGED <<nextId, clock>>

\* the variant of the update branch whose data also carries status: "OPEN"
UpdateBranch_reopens(id, title, description, dbFails) ==
    LET err == WriteError(store, id, dbFails)
        before == StatusOf(store, id) IN
    /\ store' = IF err = "none"
                THEN StoreSetStatus(StoreSetText(store, id, title, description),
                                    id, "OPEN")
                ELSE store
    /\ response' = IF err = "none" THEN Returned("update", "success", before)
                   ELSE Thrown("update", err, before)
    /\ UNCHANGED <<nextId, clock>>

\* the variant of the update branch that detects the inquiry again from
\* the new title
UpdateBranch_recomputesInquiry(id, title, description, dbFails) ==
    LET err == WriteError(store, id, dbFails)
        before == StatusOf(store, id) IN
    /\ store' = IF err = "none"
                THEN {IF t.id = id
                      THEN [t EXCEPT !.inquiry = autoInquiry(title.chars)]
                      ELSE t : t \in StoreSetText(store, id, title, description)}
                ELSE store
    /\ response' = IF err = "none" THEN Returned("update", "success", before)
                   ELSE Thrown("update", err, before)
    /\ UNCHANGED <<nextId, clock>>

\* C. UPDATE
UpdateBranch(id, title, description, dbFails) ==
    LET err == WriteError(store, id, dbFails)
        before == StatusOf(store, id) IN
    /\ store' = IF err = "none" THEN StoreSetText(store, id, title, description)
                ELSE store
    /\ response' = IF err = "none" THEN Returned("update", "success", before)
                   ELSE Thrown("update", err, before)
    /\ UNCHANGED <<nextId, clock>>

\* D. CREATE
CreateBranch(title, description, dbFails) ==
    IF ~Truthy(title)
    THEN /\ response' = Returned("create", "null", "absent")
         /\ UNCHANGED <<store, nextId, clock>>
    ELSE IF dbFails
    THEN /\ response' = Thrown("create", "PersistenceError", "absent")
         /\ UNCHANGED <<store, nextId, clock>>
    ELSE /\ nextId < MaxCreates
         /\ store' = StoreCreate(store,
                        [title |-> title, description |-> description,
                         status |-> "OPEN",
                         inquiry |-> autoInquiry(title.chars)],
                        nextId + 1, clock + 1)
         /\ clock' = clock + 1
         /\ nextId' = nextId + 1
         /\ response' = Returned("create", "success", "absent")

\* the variant of action that creates only on intent "create" and returns
\* null on any other unknown intent
action_createOnlyOnCreate(intent, id, title, description, dbFails) ==
    /\ request' = [kind |-> "action", intent |-> intent, id |-> id,
                   title |-> title]
    /\ IF intent = "delete" THEN DeleteBranch(id, dbFails)
       ELSE IF intent = "mark_done" THEN MarkDoneBranch(id, dbFails)
       ELSE IF intent = "update" THEN UpdateBranch(id, title, description, dbFails)
       ELSE IF intent = "create" THEN CreateBranch(title, description, dbFails)
       ELSE /\ response' = Returned("none", "null", "absent")
            /\ UNCHANGED <<store, nextId, clock>>

action(intent, id, title, description, dbFails) ==
    /\ request' = [kind |-> "action", intent |-> intent, id |-> id,
                   title |-> title]
    /\ IF intent = "delete" THEN DeleteBranch(id, dbFails)
       ELSE IF intent = "mark_done" THEN MarkDoneBranch(id, dbFails)
       ELSE IF intent = "update" THEN UpdateBranch(id, title, description, dbFails)
       ELSE CreateBranch(title, description, dbFails)

(************************* the ticket lifecycle ****************************)
\* "Refund my order"
tRefundMyOrder ==
    <<"R","e","f","u","n","d"," ","m","y"," ","o","r","d","e","r">>

\* the Ticket Title field of the form when a ticket is created: "", " " or
\* a title with keywords
FieldTitles == {Str(<<>>), Str(<<" ">>), Str(tRefundMyOrder)}

\* the Ticket Title field of the form when a ticket is edited: cleared, or
\* a title with keywords
EditedTitles == {Str(<<>>), Str(tRefundMyOrder)}

Init ==
    /\ store = {}
    /\ nextId = 0
    /\ clock = 0
    /\ request = [kind |-> "none", intent |-> NoIntent, id |-> NoId,
                  title |-> Null]
    /\ response = [kind |-> "none", op |-> "none", result |-> "none",
                   dbError |-> "none", before |-> "absent", list |-> <<>>]

\* confirmDelete: submit({intent: "delete", id})
SubmitDelete ==
    \E id \in Ids : action("delete", id, Null, Null, FALSE)

\* handleMarkDone: submit({intent: "mark_done", id})
SubmitMarkDone ==
    \E id \in Ids : action("mark_done", id, Null, Null, FALSE)

\* handleFormSubmit, editing: submit({intent: "update", id, title, description})
SubmitUpdate ==
    \E id \in Ids, title \in EditedTitles, description \in Descriptions :
        action("update", id, title, description, FALSE)

\* handleFormSubmit, not editing: submit({intent: "create", title, description})
SubmitCreate ==
    \E title \in FieldTitles, description \in Descriptions :
        action("create", NoId, title, description, FALSE)

\* a request the screen does not build: the intent misspelled "Update",
\* with the id and title of an update
SubmitMisspelled ==
    \E id \in Ids : action("Update", id, Str(tRefundMyOrder), Null, FALSE)

\* a request the screen does not build: no intent and no id, with or
\* without a title
SubmitNoIntent ==
    \E title \in FieldTitles \cup {Null} :
        action(NoIntent, NoId, title, Null, FALSE)

\* a request of the screen that arrives while the database cannot be
\* reached: its db call rejects
SubmitDuringOutage ==
    \/ \E id \in Ids : action("delete", id, Null, Null, TRUE)
    \/ \E id \in Ids : action("mark_done", id, Null, Null, TRUE)
    \/ \E id \in Ids : action("update", id, Str(tRefundMyOrder), Null, TRUE)
    \/ action("create", NoId, Str(tRefundMyOrder), Null, TRUE)

Load == \E dbFails \in BOOLEAN : loader(dbFails)

Next ==
    \/ SubmitDelete
    \/ SubmitMarkDone
    \/ SubmitUpdate
    \/ SubmitCreate
    \/ SubmitMisspelled
    \/ SubmitNoIntent
    \/ SubmitDuringOutage
    \/ Load

Spec == Init /\ [][Next]_vars

(********************** the categorization of titles ***********************)
Fragments ==
    { <<"R","e","f","u","n","d">>, <<"M","O","N","E","Y">>,
      <<"p","r","i","c","e">>, <<"E","r","r","o","r">>, <<"b","u","g">>,
      <<"L","O","G","I","N">>, <<"f","a","i","l">>, <<"s","h","i","p">>,
      <<"O","r","d","e","r">>, <<"d","e","l","i","v","e","r","y">>,
      <<" ">>, <<"m","y">>, <<"b","u">>, <<"g">>, <<"r","e","f","u","n">> }

RECURSIVE Concats(_)
Concats(n) ==
    IF n = 0 THEN {<<>>}
    ELSE Concats(n - 1) \cup {a \o f : a \in Concats(n - 1), f \in Fragments}

\* "Refund my order please", "Login error on checkout",
\* "Where is my delivery", "How do I change my avatar"
tRefundMyOrderPlease ==
    <<"R","e","f","u","n","d"," ","m","y"," ","o","r","d","e","r"," ",
      "p","l","e","a","s","e">>
tLoginErrorOnCheckout ==
    <<"L","o","g","i","n"," ","e","r","r","o","r"," ","o","n"," ",
      "c","h","e","c","k","o","u","t">>
tWhereIsMyDelivery ==
    <<"W","h","e","r","e"," ","i","s"," ","m","y"," ",
      "d","e","l","i","v","e","r","y">>
tHowDoIChangeMyAvatar ==
    <<"H","o","w"," ","d","o"," ","I"," ","c","h","a","n","g","e"," ",
      "m","y"," ","a","v","a","t","a","r">>

GeneratedTitles ==
    Concats(MaxFragments)
        \cup {tRefundMyOrderPlease, tLoginErrorOnCheckout, tWhereIsMyDelivery,
              tHowDoIChangeMyAvatar}

\* a create request for each generated title, into an empty table
CatCreate ==
    /\ store = {}
    /\ \E title \in GeneratedTitles :
          action("create", NoId, Str(title), Null, FALSE)

\* the ticket is deleted again
CatDelete ==
    \E t \in store : action("delete", t.id, Null, Null, FALSE)

NextCat == CatCreate \/ CatDelete

SpecCat == Init /\ [][NextCat]_vars

(******************************* properties ********************************)
IsAction(r) == r.kind = "action"

\* the row of table st with the given id
Row(st, id) == CHOOSE t \in st : t.id = id

\* a title that is empty after trimming: absent, "" or nothing but spaces
Blank(v) == v.isNull \/ \A i \in 1..Len(v.chars) : v.chars[i] = " "

\* C1: in every reachable state no ticket in the table has an empty title.
C1_NoEmptyTitlePersisted ==
    \A t \in store : ~t.title.isNull /\ t.title.chars # <<>>

\* C2: a create whose title is empty after trimming (absent, "" or only
\* whitespace) inserts nothing, leaves the table as it was and raises no
\* error (the table being reachable).
C2_BlankCreateIsNoOp ==
    [][(/\ IsAction(request')
        /\ response'.op = "create"
        /\ Blank(request'.title)
        /\ response'.dbError = "none")
       => (store' = store /\ response'.result = "null")]_vars

\* the categorization rule as the specification states it: keyword sets in
\* priority order, matched anywhere in the title without regard to case
SalesWords ==
    {<<"m","o","n","e","y">>, <<"p","r","i","c","e">>,
     <<"r","e","f","u","n","d">>}
TechnicalWords ==
    {<<"e","r","r","o","r">>, <<"b","u","g">>, <<"l","o","g","i","n">>,
     <<"f","a","i","l">>}
LogisticsWords ==
    {<<"s","h","i","p">>, <<"o","r","d","e","r">>,
     <<"d","e","l","i","v","e","r","y">>}
Rules ==
    << [category |-> "Sales", words |-> SalesWords],
       [category |-> "Technical", words |-> TechnicalWords],
       [category |-> "Logistics", words |-> LogisticsWords] >>

SameLetter(a, b) ==
    a = b \/ \E i \in 1..Len(Upper) : {a, b} = {Upper[i], Lower[i]}

ContainsWord(s, w) ==
    \E i \in 1..Len(s) :
        /\ i + Len(w) - 1 <= Len(s)
        /\ \A k \in 1..Len(w) : SameLetter(s[i + k - 1], w[k])

Matches(s) == {r \in 1..Len(Rules) : \E w \in Rules[r].words : ContainsWord(s, w)}

CategoriesOf(s) ==
    IF Matches(s) = {} THEN {"General"}
    ELSE {Rules[r].category : r \in {m \in Matches(s) : \A n \in Matches(s) : m <= n}}

\* C3: the ticket a create inserts has the inquiry of the first matching
\* rule in priority order (Sales, Technical, Logistics, else General) on
\* its title, keywords matched as substrings regardless of case; exactly
\* one category results.
C3_InquiryIsFirstMatchingRule ==
    (IsAction(request) /\ response.op = "create" /\ response.result = "success")
    => /\ Cardinality(CategoriesOf(request.title.chars)) = 1
       /\ Cardinality(store) = 1
       /\ \A t \in store :
             /\ t.title = request.title
             /\ t.inquiry \in CategoriesOf(request.title.chars)

\* a title with keywords of Sales and of Logistics was created as Sales
C3_Witness ==
    /\ response.op = "create" /\ response.result = "success"
    /\ request.title = Str(tRefundMyOrderPlease)
    /\ \E t \in store : t.title = Str(tRefundMyOrderPlease) /\ t.inquiry = "Sales"

\* C4: a ticket enters the table with status OPEN, and no request moves a
\* ticket that is FULFILLED to any other status while it exists.
C4_StatusNeverRegresses ==
    [][/\ \A u \in store' : ~HasId(store, u.id) => u.status = "OPEN"
       /\ \A t \in store : \A u \in store' :
             (u.id = t.id /\ t.status = "FULFILLED") => u.status = "FULFILLED"]_vars

\* an update has just succeeded on a ticket that was FULFILLED
C4_Witness ==
    /\ response.op = "update" /\ response.result = "success"
    /\ response.before = "FULFILLED"
    /\ HasId(store, request.id)
    /\ Row(store, request.id).status = "FULFILLED"
    /\ Row(store, request.id).title = request.title

\* C5: a successful update changes nothing but the title and description of
\* the ticket it addresses: that ticket keeps its id, status, inquiry and
\* createdAt, and every other ticket is as it was.
C5_UpdateFrame ==
    [][(IsAction(request') /\ response'.op = "update"
        /\ response'.result = "success")
       => /\ HasId(store, request'.id)
          /\ {t.id : t \in store'} = {t.id : t \in store}
          /\ Cardinality(store') = Cardinality(store)
          /\ \A t \in store : \A u \in store' :
                u.id = t.id =>
                   /\ u.status = t.status
                   /\ u.inquiry = t.inquiry
                   /\ u.createdAt = t.createdAt
                   /\ t.id # request'.id => u = t
                   /\ t.id = request'.id => u.title = request'.title
          /\ nextId' = nextId /\ clock' = clock]_vars

\* an update has just given a General ticket a title with a Sales keyword
\* while another ticket is in the table
C5_Witness ==
    /\ response.op = "update" /\ response.result = "success"
    /\ HasId(store, request.id)
    /\ Row(store, request.id).title = Str(tRefundMyOrder)
    /\ Row(store, request.id).inquiry = "General"
    /\ Row(store, request.id).description # Null
    /\ Cardinality(store) = 2

\* C6: mark_done on a ticket that is already FULFILLED succeeds and leaves
\* the table exactly as it was (the table being reachable).
C6_ResolveIdempotent ==
    [][(/\ IsAction(request')
        /\ response'.op = "mark_done"
        /\ StatusOf(store, request'.id) = "FULFILLED"
        /\ response'.dbError # "PersistenceError")
       => (store' = store /\ response'.result = "success")]_vars

\* mark_done has just succeeded on a ticket that was already FULFILLED
C6_Witness ==
    /\ response.op = "mark_done" /\ response.result = "success"
    /\ response.before = "FULFILLED"
    /\ HasId(store, request.id)
    /\ Row(store, request.id).status = "FULFILLED"

\* C7: update or mark_done with an id that has no row in the table (never
\* created, or deleted) fails, with NotFound when the table is reachable,
\* never reports success, and leaves the table as it was.
C7_MissingIdFails ==
    [][(/\ IsAction(request')
        /\ response'.op \in {"update", "mark_done"}
        /\ ~HasId(store, request'.id))
       => /\ response'.result = "thrown"
          /\ response'.dbError \in {"NotFound", "PersistenceError"}
          /\ store' = store]_vars

\* an update of a ticket that was created and then deleted has just
\* failed with NotFound
C7_Witness ==
    /\ response.op = "update" /\ response.result = "thrown"
    /\ response.dbError = "NotFound"
    /\ request.id \in 1..nextId
    /\ ~HasId(store, request.id)

\* C8: when the read succeeds, the list holds every ticket of the table
\* exactly once, and a ticket created later (one with a later createdAt)
\* stands before every ticket created earlier, whatever updates and
\* resolves came in between.
C8_ListNewestFirst ==
    (response.kind = "loader" /\ response.dbError = "none")
    => /\ Len(response.list) = Cardinality(store)
       /\ {response.list[i] : i \in 1..Len(response.list)} = store
       /\ \A i, j \in 1..Len(response.list) :
             response.list[i].createdAt > response.list[j].createdAt => i < j

\* the list shows a newer OPEN ticket before an older one that was
\* resolved after the newer one was created
C8_Witness ==
    /\ response.kind = "loader" /\ response.dbError = "none"
    /\ Len(response.list) = 2
    /\ response.list[1].createdAt > response.list[2].createdAt
    /\ response.list[1].status = "OPEN"
    /\ response.list[2].status = "FULFILLED"

\* C9: a failed read makes the list empty and raises nothing; a failed
\* write in create, update, mark_done or delete is thrown to the caller
\* and never answered with success.
C9_FailSoftOnlyForList ==
    /\ (response.kind = "loader" /\ response.dbError = "PersistenceError")
       => (response.result = "returned" /\ response.list = <<>>)
    /\ (IsAction(response) /\ response.dbError = "PersistenceError")
       => response.result = "thrown"
    /\ (IsAction(response) /\ response.dbError # "none")
       => response.result # "success"

\* a read has failed while the table holds a ticket, and the list is empty
C9_Witness ==
    /\ response.kind = "loader" /\ response.dbError = "PersistenceError"
    /\ response.list = <<>>
    /\ store # {}

\* C10: a request runs the one operation its intent names, and any intent
\* other than "delete", "mark_done" and "update" runs create: with a
\* non-empty title (and the table reachable) one new OPEN ticket with that
\* title is inserted and nothing else changes, whether or not the request
\* carries an id.
C10_DispatchFallsThroughToCreate ==
    [][IsAction(request')
       => /\ request'.intent \in {"delete", "mark_done", "update"}
                => response'.op = request'.intent
          /\ request'.intent \notin {"delete", "mark_done", "update"}
                => /\ response'.op = "create"
                   /\ store \subseteq store'
                   /\ (Truthy(request'.title) /\ response'.dbError = "none")
                         => /\ response'.result = "success"
                            /\ Cardinality(store' \ store) = 1
                            /\ \A t \in store' \ store :
                                  /\ t.status = "OPEN"
                                  /\ t.title = request'.title
                                  /\ ~HasId(store, t.id)]_vars

\* a request with the misspelled intent "Update" and the id of an existing
\* ticket has just inserted a second ticket
C10_Witness ==
    /\ IsAction(request) /\ request.intent = "Update"
    /\ response.op = "create" /\ response.result = "success"
    /\ request.id # NoId
    /\ HasId(store, request.id)
    /\ Row(store, request.id).title # request.title
    /\ Cardinality(store) = 2

====
